---- MODULE Spec2Model ----
(***************************************************************************)
(* A model of the TamburPlots analysis scripts:                            *)
(*   video_loss/video_loss.py   generate_lpips_plot and its __main__ block *)
(*   lpips_token/lpips_token.py classify_loss_rate and the token selection *)
(* CSV fields are strings; a parsed float is the IEEE double nearest the   *)
(* decimal literal, kept exactly (see "Doubles" below).                    *)
(***************************************************************************)
EXTENDS Integers, Sequences, FiniteSets

VARIABLES
    prog,            \* which script runs: "video_loss" or "lpips_token"
    csv_data,        \* video_loss: the file, a sequence of rows of string fields
    pc,              \* position of the running script
    header,          \* video_loss: the header row read by next(reader)
    cols,            \* video_loss: [lpips, avg_loss, video] 0-based column indices
    row_number,      \* video_loss: data rows consumed by the row loop
    parsed_data,     \* video_loss: video name -> condition key -> list of lpips
    plot_data,       \* video_loss: the three lists prepared for plotting
    stdout,          \* video_loss: the messages printed, in order
    chart,           \* video_loss: what was handed to ax.bar, or NoChart
    df_csv,          \* lpips_token: the data frame as pd.read_csv returned it
    df,              \* lpips_token: the data frame df, a sequence of row records
    token_20_set,    \* lpips_token
    token_0_set,     \* lpips_token
    all_tokens,      \* lpips_token
    selected_tokens, \* lpips_token
    grouped          \* lpips_token: (n_codes, loss_rate) -> mean lpips

vars == <<prog, csv_data, pc, header, cols, row_number, parsed_data, plot_data,
          stdout, chart, df_csv, df, token_20_set, token_0_set, all_tokens,
          selected_tokens, grouped>>

videoVars == <<csv_data, header, cols, row_number, parsed_data, plot_data,
               stdout, chart>>

tokenVars == <<df_csv, df, token_20_set, token_0_set, all_tokens, selected_tokens, grouped>>

-----------------------------------------------------------------------------
(* Bounds of the model *)

\* longest file: data rows after the first line
MaxRows == 3
\* largest number of distinct token counts in a data frame
MaxTokens == 9
\* the loss grid of the single-row inputs: GridLo..GridHi thousandths
GridLo == 12
GridHi == 300

-----------------------------------------------------------------------------
(* Small arithmetic helpers *)

RECURSIVE Pow2(_)
Pow2(n) == IF n <= 0 THEN 1 ELSE 2 * Pow2(n - 1)

RECURSIVE Pow2Mod(_, _)
Pow2Mod(n, m) == IF n <= 0 THEN 1 % m ELSE (2 * Pow2Mod(n - 1, m)) % m

Abs(i) == IF i < 0 THEN -i ELSE i

Sgn(i) == IF i < 0 THEN -1 ELSE 1

RECURSIVE Gcd(_, _)
Gcd(a, b) == IF b = 0 THEN Abs(a) ELSE Gcd(b, a % b)

RECURSIVE SeqSum(_)
SeqSum(s) == IF s = <<>> THEN 0 ELSE Head(s) + SeqSum(Tail(s))

Range(s) == {s[i] : i \in DOMAIN s}

Min(S) == CHOOSE x \in S : \A y \in S : x <= y

RECURSIVE SortedSeq(_)
SortedSeq(S) == IF S = {} THEN <<>> ELSE <<Min(S)>> \o SortedSeq(S \ {Min(S)})

-----------------------------------------------------------------------------
(* Doubles.  Scale thousandths: a decimal literal with at most three       *)
(* fraction digits is k/1000.  A double is kept exactly as [k, e], the     *)
(* real number (k * 2^62 + e) / (1000 * 2^62): k/1000 plus the rounding    *)
(* error of the representation.  2^62 is never computed.                   *)

Thousand == 10 * 10 * 10

\* does (a + eps/2^62)/1000 reach 2^t ?  (a >= 1, |eps| far below 2^62)
ReachesBinade(a, eps, t) ==
    IF t >= 0
    THEN a > Thousand * Pow2(t) \/ (a = Thousand * Pow2(t) /\ eps >= 0)
    ELSE a * Pow2(-t) > Thousand \/ (a * Pow2(-t) = Thousand /\ eps >= 0)

\* the binary exponent t with 2^t <= (a + eps/2^62)/1000 < 2^(t+1)
Binade(a, eps) ==
    CHOOSE t \in (0 - 11)..6 :
        /\ ReachesBinade(a, eps, t)
        /\ ~ReachesBinade(a, eps, t + 1)

\* the double nearest k/1000 (round to nearest; a tie cannot occur)
Fl(k) ==
    IF k = 0 THEN [k |-> 0, e |-> 0]
    ELSE LET a == Abs(k)
             t == Binade(a, 0)
             p == 52 - t
             r == ((a % Thousand) * Pow2Mod(p, Thousand)) % Thousand
             d == IF r < 500 THEN 0 - r ELSE Thousand - r
         IN  [k |-> k, e |-> Sgn(k) * d * Pow2(10 + t)]

\* the double nearest the real (k * 2^62 + e)/(1000 * 2^62), which is a
\* multiple of 2^-62: round to 53 significant bits, ties to even
Round53(k, e) ==
    IF k = 0 THEN [k |-> 0, e |-> e]
    ELSE LET a   == Abs(k)
             eps == Sgn(k) * e
             s   == Binade(a, eps) + 10
         IN  IF s <= 0 THEN [k |-> k, e |-> e]
             ELSE LET m    == Pow2(s + 1)
                      \* the mantissa's low s+1 bits: 125 * M = eps/8 (mod 2^(s+1))
                      y    == CHOOSE z \in 0..(m - 1) : (125 * z - (eps \div 8)) % m = 0
                      low  == y % Pow2(s)
                      bit  == y \div Pow2(s)
                      half == Pow2(s - 1)
                      down == low < half \/ (low = half /\ bit = 0)
                      eps2 == IF down THEN eps - Thousand * low
                                      ELSE eps + Thousand * (Pow2(s) - low)
                  IN  [k |-> k, e |-> Sgn(k) * eps2]

FSub(x, y) == Round53(x.k - y.k, x.e - y.e)

FAbs(x) == IF x.k < 0 \/ (x.k = 0 /\ x.e < 0) THEN [k |-> 0 - x.k, e |-> 0 - x.e] ELSE x

FLt(x, y) == x.k < y.k \/ (x.k = y.k /\ x.e < y.e)

FLe(x, y) == x.k < y.k \/ (x.k = y.k /\ x.e <= y.e)

FEq(x, y) == x.k = y.k /\ x.e = y.e

\* the float literals of the scripts
F_0_0 == Fl(0)

F_0_01 == Fl(10)

F_0_05 == Fl(50)

F_0_15 == Fl(150)

F_0_20 == Fl(200)

F_0_25 == Fl(250)

-----------------------------------------------------------------------------
(* Strings (Python str methods) *)

Char(s, i) == SubSeq(s, i, i)

RECURSIVE LStrip(_)
LStrip(s) == IF Len(s) > 0 /\ Head(s) = " " THEN LStrip(Tail(s)) ELSE s

RECURSIVE RStrip(_)
RStrip(s) ==
    IF Len(s) > 0 /\ Char(s, Len(s)) = " " THEN RStrip(SubSeq(s, 1, Len(s) - 1)) ELSE s

\* str.strip()
StrStrip(s) == RStrip(LStrip(s))

StartsWith(s, old) == Len(s) >= Len(old) /\ SubSeq(s, 1, Len(old)) = old

\* str.replace(old, new), old not empty: leftmost non-overlapping occurrences
RECURSIVE StrReplace(_, _, _)
StrReplace(s, old, new) ==
    IF Len(s) = 0 THEN s
    ELSE IF StartsWith(s, old)
         THEN new \o StrReplace(SubSeq(s, Len(old) + 1, Len(s)), old, new)
         ELSE Head(s) \o StrReplace(Tail(s), old, new)

\* str.split(sep)[-1], sep one character: what follows the last sep
RECURSIVE SplitLast(_, _)
SplitLast(s, sep) ==
    IF \E i \in 1..Len(s) : Char(s, i) = sep
    THEN SplitLast(Tail(s), sep)
    ELSE s

\* list.index(x): the 0-based position of the first x, or -1 for ValueError
ListIndex(list, x) ==
    IF \E i \in DOMAIN list : list[i] = x
    THEN (CHOOSE i \in DOMAIN list : list[i] = x /\ \A j \in 1..(i - 1) : list[j] # x) - 1
    ELSE 0 - 1

Digits == {"0", "1", "2", "3", "4", "5", "6", "7", "8", "9"}

DigitVal(c) ==
    CASE c = "0" -> 0 [] c = "1" -> 1 [] c = "2" -> 2 [] c = "3" -> 3 [] c = "4" -> 4
      [] c = "5" -> 5 [] c = "6" -> 6 [] c = "7" -> 7 [] c = "8" -> 8 [] c = "9" -> 9

AllDigits(s) == \A i \in 1..Len(s) : Char(s, i) \in Digits

RECURSIVE DigitsVal(_)
DigitsVal(s) ==
    IF Len(s) = 0 THEN 0
    ELSE 10 * DigitsVal(SubSeq(s, 1, Len(s) - 1)) + DigitVal(Char(s, Len(s)))

\* float(s) for the decimal literals of the model (sign, digits, at most three
\* fraction digits): [ok, k] with k the literal in thousandths; ok = FALSE
\* is ValueError
ParseFloat(s) ==
    LET t    == StrStrip(s)
        neg  == Len(t) > 0 /\ Head(t) = "-"
        u    == IF Len(t) > 0 /\ Head(t) \in {"-", "+"} THEN Tail(t) ELSE t
        dot  == ListIndex([i \in 1..Len(u) |-> Char(u, i)], ".") + 1
        ip   == IF dot = 0 THEN u ELSE SubSeq(u, 1, dot - 1)
        fp   == IF dot = 0 THEN "" ELSE SubSeq(u, dot + 1, Len(u))
        ok   == /\ AllDigits(ip) /\ AllDigits(fp)
                /\ Len(ip) + Len(fp) > 0
                /\ Len(fp) <= 3
        mag  == DigitsVal(ip) * Thousand + DigitsVal(fp) *
                (CASE Len(fp) = 0 -> 0 [] Len(fp) = 1 -> 100 [] Len(fp) = 2 -> 10 [] OTHER -> 1)
    IN  IF ok THEN [ok |-> TRUE, k |-> IF neg THEN 0 - mag ELSE mag]
        ELSE [ok |-> FALSE, k |-> 0]

-----------------------------------------------------------------------------
(* video_loss.py: generate_lpips_plot *)

target_video_names ==
    <<"video-0.mp4", "video-1.mp4", "video-2.mp4",
      "video-4.mp4", "video-5.mp4", "video-6.mp4",
      "video-7.mp4", "video-9.mp4">>

Key0 == "0%_loss"

Key20 == "20%_loss"

\* defaultdict(lambda: {"0%_loss": [], "20%_loss": []}): only target names are
\* ever looked up, so the mapping is kept total over them
EmptyParsedData ==
    [v \in Range(target_video_names) |-> [c \in {Key0, Key20} |-> <<>>]]

Msg(kind, n, txt) == [kind |-> kind, n |-> n, txt |-> txt]

NoCols == [lpips |-> 0 - 1, avg_loss |-> 0 - 1, video |-> 0 - 1]

FallbackCols == [lpips |-> 6, avg_loss |-> 8, video |-> 13]

EmptyPlotData ==
    [video_labels |-> <<>>, lpips_0_loss_avg |-> <<>>, lpips_20_loss_avg |-> <<>>]

NoChart == [drawn |-> FALSE, labels |-> <<>>, bars0 |-> <<>>, bars20 |-> <<>>]

\* the whole file is whitespace: csv_data_string.strip() is empty
IsBlank(csv) ==
    \A i \in DOMAIN csv :
        csv[i] = <<>> \/ (Len(csv[i]) = 1 /\ StrStrip(csv[i][1]) = "")

HeaderHasNames(h) ==
    /\ ListIndex(h, "lpips") >= 0
    /\ ListIndex(h, "avg_packet_loss") >= 0
    /\ ListIndex(h, "video") >= 0

\* the categorisation of a parsed loss fraction: Key0, Key20 or "none"
Categorize(avg_loss) ==
    IF FEq(avg_loss, F_0_0) THEN Key0
    ELSE IF FLe(F_0_15, avg_loss) /\ FLe(avg_loss, F_0_25) THEN Key20
    ELSE "none"

\* the body of the row loop on one row with the columns c: what it does,
\* [kind, video, lpips]; lpips is the parsed metric in thousandths
RowOutcome(row, c) ==
    LET out(kind, v, m) == [kind |-> kind, video |-> v, lpips |-> m]
    IN
    IF row = <<>> THEN out("empty", "", 0)
    ELSE IF c.video >= Len(row) THEN out("index_error", "", 0)
    ELSE LET video_name == StrReplace(StrStrip(row[c.video + 1]), "\"", "")
         IN
         IF video_name \notin Range(target_video_names) THEN out("not_target", video_name, 0)
         ELSE IF c.lpips >= Len(row) THEN out("index_error", video_name, 0)
         ELSE LET lpips == ParseFloat(row[c.lpips + 1])
              IN
              IF ~lpips.ok THEN out("value_error", video_name, 0)
              ELSE IF c.avg_loss >= Len(row) THEN out("index_error", video_name, 0)
              ELSE LET avg_loss_str == StrReplace(StrStrip(row[c.avg_loss + 1]), "\"", "")
                       avg_loss     == ParseFloat(avg_loss_str)
                   IN
                   IF ~avg_loss.ok THEN out("value_error", video_name, 0)
                   ELSE out(Categorize(Fl(avg_loss.k)), video_name, lpips.k)

\* a variant that swallows ValueError without a message
RowWarningSilentValueError(o, n) ==
    IF o.kind = "index_error" THEN <<Msg("warning_columns", n, "")>> ELSE <<>>

\* the except clauses of the row loop: the warning printed for the outcome o
\* of the row printed as row n
RowWarning(o, n) ==
    IF o.kind = "index_error" THEN <<Msg("warning_columns", n, "")>>
    ELSE IF o.kind = "value_error" THEN <<Msg("warning_parse", n, "")>>
    ELSE <<>>

\* np.mean of a non-empty list of metrics (thousandths): the exact quotient
\* sum/len as a reduced fraction <<numerator, denominator>>
Mean(values) ==
    LET n == SeqSum(values)
        d == Len(values)
        g == Gcd(n, d)
    IN  <<n \div g, d \div g>>

\* the number 0 appended when a bucket is empty
Zero == <<0, 1>>

\* the value appended to a lpips_*_loss_avg list for one bucket
CellValue(data) == IF data # <<>> THEN Mean(data) ELSE Zero

VideoLabel(video_name) ==
    "Video" \o SplitLast(StrReplace(video_name, ".mp4", ""), "-")

\* a variant that visits only the videos that have data
PlotOrderSeen(pd) ==
    SelectSeq(target_video_names, LAMBDA v : pd[v][Key0] # <<>> \/ pd[v][Key20] # <<>>)

\* the order in which the plot-preparation loop visits the videos
PlotOrder(pd) == target_video_names

\* the Info lines of the plot-preparation loop, in order
RECURSIVE InfoLines(_, _)
InfoLines(names, pd) ==
    IF names = <<>> THEN <<>>
    ELSE LET v == Head(names)
         IN  (IF pd[v][Key0] = <<>> THEN <<Msg("info_no_data_0", 0, v)>> ELSE <<>>)
             \o (IF pd[v][Key20] = <<>> THEN <<Msg("info_no_data_20", 0, v)>> ELSE <<>>)
             \o InfoLines(Tail(names), pd)

\* any(list): some element is truthy (a non-zero number)
Any(list) == \E i \in DOMAIN list : list[i][1] # 0

----

Main ==
    /\ prog = "video_loss" /\ pc = "main"
    /\ IF IsBlank(csv_data)
       THEN /\ stdout' = Append(stdout, Msg("error_file_empty", 0, ""))
            /\ pc' = "done"
       ELSE /\ stdout' = stdout
            /\ pc' = "read_header"
    /\ UNCHANGED <<prog, csv_data, header, cols, row_number, parsed_data, plot_data,
                   chart, tokenVars>>

ReadHeader ==
    /\ prog = "video_loss" /\ pc = "read_header"
    /\ IF csv_data = <<>>
       THEN /\ stdout' = Append(stdout, Msg("error_csv_empty", 0, ""))
            /\ pc' = "done"
            /\ header' = header
       ELSE /\ header' = Head(csv_data)
            /\ pc' = "columns"
            /\ stdout' = stdout
    /\ UNCHANGED <<prog, csv_data, cols, row_number, parsed_data, plot_data,
                   chart, tokenVars>>

ResolveColumns ==
    /\ prog = "video_loss" /\ pc = "columns"
    /\ IF HeaderHasNames(header)
       THEN /\ cols' = [lpips    |-> ListIndex(header, "lpips"),
                        avg_loss |-> ListIndex(header, "avg_packet_loss"),
                        video    |-> ListIndex(header, "video")]
            /\ stdout' = stdout
       ELSE /\ cols' = FallbackCols
            /\ stdout' = stdout \o <<Msg("error_header_columns", 0, ""),
                                     Msg("found_header", 0, ""),
                                     Msg("warning_fallback_indices", 0, "")>>
    /\ pc' = "rows"
    /\ UNCHANGED <<prog, csv_data, header, row_number, parsed_data, plot_data,
                   chart, tokenVars>>

\* one iteration of the row loop
RowStep ==
    /\ prog = "video_loss" /\ pc = "rows"
    /\ row_number + 1 < Len(csv_data)
    /\ LET row == csv_data[row_number + 2]
           o   == RowOutcome(row, cols)
       IN  /\ parsed_data' =
                 IF o.kind \in {Key0, Key20}
                 THEN [parsed_data EXCEPT ![o.video][o.kind] = Append(@, o.lpips)]
                 ELSE parsed_data
           /\ stdout' = stdout \o RowWarning(o, row_number + 2)
    /\ row_number' = row_number + 1
    /\ UNCHANGED <<prog, csv_data, pc, header, cols, plot_data, chart, tokenVars>>

RowsDone ==
    /\ prog = "video_loss" /\ pc = "rows"
    /\ row_number + 1 >= Len(csv_data)
    /\ pc' = "aggregate"
    /\ UNCHANGED <<prog, videoVars, tokenVars>>

\* the plot-preparation loop over the videos
Aggregate ==
    /\ prog = "video_loss" /\ pc = "aggregate"
    /\ LET order == PlotOrder(parsed_data)
       IN  /\ plot_data' =
                 [video_labels      |-> [i \in DOMAIN order |-> VideoLabel(order[i])],
                  lpips_0_loss_avg  |-> [i \in DOMAIN order |->
                                           CellValue(parsed_data[order[i]][Key0])],
                  lpips_20_loss_avg |-> [i \in DOMAIN order |->
                                           CellValue(parsed_data[order[i]][Key20])]]
           /\ stdout' = stdout \o InfoLines(order, parsed_data)
    /\ pc' = "check"
    /\ UNCHANGED <<prog, csv_data, header, cols, row_number, parsed_data, chart, tokenVars>>

CheckAny ==
    /\ prog = "video_loss" /\ pc = "check"
    /\ IF ~Any(plot_data.lpips_0_loss_avg) /\ ~Any(plot_data.lpips_20_loss_avg)
       THEN /\ stdout' = Append(stdout, Msg("error_no_data", 0, ""))
            /\ pc' = "done"
       ELSE /\ stdout' = stdout
            /\ pc' = "plot"
    /\ UNCHANGED <<prog, csv_data, header, cols, row_number, parsed_data, plot_data,
                   chart, tokenVars>>

Plot ==
    /\ prog = "video_loss" /\ pc = "plot"
    /\ chart' = [drawn  |-> TRUE,
                 labels |-> plot_data.video_labels,
                 bars0  |-> plot_data.lpips_0_loss_avg,
                 bars20 |-> plot_data.lpips_20_loss_avg]
    /\ stdout' = Append(stdout, Msg("plot_saved", 0, ""))
    /\ pc' = "done"
    /\ UNCHANGED <<prog, csv_data, header, cols, row_number, parsed_data, plot_data,
                   tokenVars>>

-----------------------------------------------------------------------------
(* The files given to video_loss.py *)

HeaderNamed == <<"video", "avg_packet_loss", "lpips">>

HeaderShuffled == <<"lpips", "n_codes", "avg_packet_loss", "video">>

\* a header of 14 columns that names none of the required columns as the
\* script spells them
HeaderNoNames ==
    <<"run", "codec", "bitrate", "fps", "psnr", "ssim", "LPIPS", "n_codes",
      "packet_loss", "width", "height", "frames", "seed", "video_name">>

\* the column layout of the data rows written under the first line h
LayoutOf(h) ==
    IF HeaderHasNames(h)
    THEN [lpips    |-> ListIndex(h, "lpips"),
          avg_loss |-> ListIndex(h, "avg_packet_loss"),
          video    |-> ListIndex(h, "video"),
          width    |-> Len(h)]
    ELSE [lpips |-> 6, avg_loss |-> 8, video |-> 13, width |-> 14]

\* the data row with the fields t = <<video, loss, lpips>> under layout lay
LayRow(lay, t) ==
    [i \in 1..lay.width |->
        IF i = lay.video + 1 THEN t[1]
        ELSE IF i = lay.avg_loss + 1 THEN t[2]
        ELSE IF i = lay.lpips + 1 THEN t[3]
        ELSE "-"]

\* <<video, avg_packet_loss, lpips>> of the data rows of the model
RowFields ==
    { <<"video-0.mp4", "0.0", "0.1">>,
      <<"video-0.mp4", "0.0", "0.3">>,
      <<"video-0.mp4", "0.2", "0.3">>,
      <<"video-1.mp4", "0.0", "0.0">>,
      <<" \"video-1.mp4\"", "\"0.25\" ", "0.2">>,
      <<"video-0.mp4", "0.005", "0.1">>,
      <<"video-0.mp4", "0.0", "n/a">>,
      <<"video-1.mp4", "n/a", "0.1">>,
      <<"video-3.mp4", "0.0", "n/a">> }

\* a row cut short after two fields, and a blank line
ShortRow == <<"video-0.mp4", "0.0">>

RowsUnder(h) == {LayRow(LayoutOf(h), t) : t \in RowFields} \cup {ShortRow, <<>>}

SeqsUpTo(S, n) == UNION {[1..m -> S] : m \in 0..n}

\* files whose header names the three columns
NamedFiles ==
    {<<HeaderNamed>> \o rows : rows \in SeqsUpTo(RowsUnder(HeaderNamed), MaxRows)}

\* a file without a header row: its first line is already a data row
FirstDataRow == LayRow(LayoutOf(<<>>), <<"video-0.mp4", "0.0", "0.1">>)

WideFields ==
    { <<"video-0.mp4", "0.0", "0.1">>,
      <<"video-1.mp4", "0.2", "0.3">>,
      <<"video-1.mp4", "0.2", "n/a">> }

WideRows == {LayRow(LayoutOf(HeaderNoNames), t) : t \in WideFields} \cup {ShortRow}

\* files whose first line does not name the columns
UnnamedFiles ==
    {<<h>> \o rows : h \in {HeaderNoNames, FirstDataRow},
                     rows \in SeqsUpTo(WideRows, MaxRows)}

BlankFiles == {<<>>, << <<>> >>, << <<" ">>, <<>> >>}

\* the decimal literal of k thousandths, |k| < 1000: "0.ddd" or "-0.ddd"
DigitStr(d) ==
    CASE d = 0 -> "0" [] d = 1 -> "1" [] d = 2 -> "2" [] d = 3 -> "3" [] d = 4 -> "4"
      [] d = 5 -> "5" [] d = 6 -> "6" [] d = 7 -> "7" [] d = 8 -> "8" [] d = 9 -> "9"

Literal(k) ==
    (IF k < 0 THEN "-" ELSE "") \o "0." \o DigitStr(Abs(k) \div 100)
        \o DigitStr((Abs(k) \div 10) % 10) \o DigitStr(Abs(k) % 10)

LossGrid == (0 - GridLo)..GridHi

\* one data row of a target video for every loss fraction of the grid
GridFiles ==
    {<<HeaderShuffled, LayRow(LayoutOf(HeaderShuffled), <<"video-2.mp4", Literal(k), "0.5">>)>> :
        k \in LossGrid}

VideoFiles == NamedFiles \cup UnnamedFiles \cup BlankFiles \cup GridFiles

-----------------------------------------------------------------------------
(* video_loss2.py: the same script for the bands 0% and >0% - 5%, over the *)
(* videos 0..8                                                             *)

\* [f"video-{i}.mp4" for i in range(9)]
target_video_names2 ==
    <<"video-0.mp4", "video-1.mp4", "video-2.mp4",
      "video-3.mp4", "video-4.mp4", "video-5.mp4",
      "video-6.mp4", "video-7.mp4", "video-8.mp4">>

Key05 == "0_5_loss"

\* defaultdict(lambda: {"0%_loss": [], "0_5_loss": []}), kept total over the
\* target names
EmptyParsedData2 ==
    [v \in Range(target_video_names2) |-> [c \in {Key0, Key05} |-> <<>>]]

EmptyPlotData2 ==
    [video_labels |-> <<>>, lpips_0_loss_avg |-> <<>>, lpips_0_5_loss_avg |-> <<>>]

NoChart2 == [drawn |-> FALSE, labels |-> <<>>, bars0 |-> <<>>, bars05 |-> <<>>]

\* the categorisation of a parsed loss fraction: Key0, Key05 or "none"
Categorize2(avg_loss) ==
    IF FEq(avg_loss, F_0_0) THEN Key0
    ELSE IF FLt(F_0_0, avg_loss) /\ FLe(avg_loss, F_0_05) THEN Key05
    ELSE "none"

\* the body of the row loop on one row with the columns c: [kind, video, lpips]
RowOutcome2(row, c) ==
    LET out(kind, v, m) == [kind |-> kind, video |-> v, lpips |-> m]
    IN
    IF row = <<>> THEN out("empty", "", 0)
    ELSE IF c.video >= Len(row) THEN out("index_error", "", 0)
    ELSE LET video_name == StrReplace(StrStrip(row[c.video + 1]), "\"", "")
         IN
         IF video_name \notin Range(target_video_names2) THEN out("not_target", video_name, 0)
         ELSE IF c.lpips >= Len(row) THEN out("index_error", video_name, 0)
         ELSE LET lpips == ParseFloat(row[c.lpips + 1])
              IN
              IF ~lpips.ok THEN out("value_error", video_name, 0)
              ELSE IF c.avg_loss >= Len(row) THEN out("index_error", video_name, 0)
              ELSE LET avg_loss_str == StrReplace(StrStrip(row[c.avg_loss + 1]), "\"", "")
                       avg_loss     == ParseFloat(avg_loss_str)
                   IN
                   IF ~avg_loss.ok THEN out("value_error", video_name, 0)
                   ELSE out(Categorize2(Fl(avg_loss.k)), video_name, lpips.k)

\* a variant that also prints the parse warning for a row it has appended
RowWarning2AlsoOnAppend(o, n) ==
    IF o.kind = "index_error" THEN <<Msg("warning_columns", n, "")>>
    ELSE IF o.kind \in {"value_error", Key0, Key05} THEN <<Msg("warning_parse", n, "")>>
    ELSE <<>>

\* the except clauses of the row loop: the warning printed for the outcome o
RowWarning2(o, n) ==
    IF o.kind = "index_error" THEN <<Msg("warning_columns", n, "")>>
    ELSE IF o.kind = "value_error" THEN <<Msg("warning_parse", n, "")>>
    ELSE <<>>

\* str.split(sep)[0], sep one character: what precedes the first sep
RECURSIVE SplitFirst(_, _)
SplitFirst(s, sep) ==
    IF Len(s) = 0 \/ Head(s) = sep THEN ""
    ELSE Head(s) \o SplitFirst(Tail(s), sep)

VideoLabel2(video_name) ==
    "Video " \o SplitFirst(SplitLast(video_name, "-"), ".")

\* the Info lines of the plot-preparation loop, in order
RECURSIVE InfoLines2(_, _)
InfoLines2(names, pd) ==
    IF names = <<>> THEN <<>>
    ELSE LET v == Head(names)
         IN  (IF pd[v][Key0] = <<>> THEN <<Msg("info_no_data_0", 0, v)>> ELSE <<>>)
             \o (IF pd[v][Key05] = <<>> THEN <<Msg("info_no_data_0_5", 0, v)>> ELSE <<>>)
             \o InfoLines2(Tail(names), pd)

----

Main2 ==
    /\ prog = "video_loss2" /\ pc = "main"
    /\ IF IsBlank(csv_data)
       THEN /\ stdout' = Append(stdout, Msg("error_file_empty", 0, ""))
            /\ pc' = "done"
       ELSE /\ stdout' = stdout
            /\ pc' = "read_header"
    /\ UNCHANGED <<prog, csv_data, header, cols, row_number, parsed_data, plot_data,
                   chart, tokenVars>>

ReadHeader2 ==
    /\ prog = "video_loss2" /\ pc = "read_header"
    /\ IF csv_data = <<>>
       THEN /\ stdout' = Append(stdout, Msg("error_csv_empty", 0, ""))
            /\ pc' = "done"
            /\ header' = header
       ELSE /\ header' = Head(csv_data)
            /\ pc' = "columns"
            /\ stdout' = stdout
    /\ UNCHANGED <<prog, csv_data, cols, row_number, parsed_data, plot_data,
                   chart, tokenVars>>

ResolveColumns2 ==
    /\ prog = "video_loss2" /\ pc = "columns"
    /\ IF HeaderHasNames(header)
       THEN /\ cols' = [lpips    |-> ListIndex(header, "lpips"),
                        avg_loss |-> ListIndex(header, "avg_packet_loss"),
                        video    |-> ListIndex(header, "video")]
            /\ stdout' = stdout
       ELSE /\ cols' = FallbackCols
            /\ stdout' = stdout \o <<Msg("error_header_columns", 0, ""),
                                     Msg("found_header", 0, ""),
                                     Msg("warning_fallback_indices", 0, "")>>
    /\ pc' = "rows"
    /\ UNCHANGED <<prog, csv_data, header, row_number, parsed_data, plot_data,
                   chart, tokenVars>>

\* one iteration of the row loop
RowStep2 ==
    /\ prog = "video_loss2" /\ pc = "rows"
    /\ row_number + 1 < Len(csv_data)
    /\ LET row == csv_data[row_number + 2]
           o   == RowOutcome2(row, cols)
       IN  /\ parsed_data' =
                 IF o.kind \in {Key0, Key05}
                 THEN [parsed_data EXCEPT ![o.video][o.kind] = Append(@, o.lpips)]
                 ELSE parsed_data
           /\ stdout' = stdout \o RowWarning2(o, row_number + 2)
    /\ row_number' = row_number + 1
    /\ UNCHANGED <<prog, csv_data, pc, header, cols, plot_data, chart, tokenVars>>

RowsDone2 ==
    /\ prog = "video_loss2" /\ pc = "rows"
    /\ row_number + 1 >= Len(csv_data)
    /\ pc' = "aggregate"
    /\ UNCHANGED <<prog, videoVars, tokenVars>>

\* the plot-preparation loop over the videos
Aggregate2 ==
    /\ prog = "video_loss2" /\ pc = "aggregate"
    /\ plot_data' =
          [video_labels       |-> [i \in DOMAIN target_video_names2 |->
                                     VideoLabel2(target_video_names2[i])],
           lpips_0_loss_avg   |-> [i \in DOMAIN target_video_names2 |->
                                     CellValue(parsed_data[target_video_names2[i]][Key0])],
           lpips_0_5_loss_avg |-> [i \in DOMAIN target_video_names2 |->
                                     CellValue(parsed_data[target_video_names2[i]][Key05])]]
    /\ stdout' = stdout \o InfoLines2(target_video_names2, parsed_data)
    /\ pc' = "check"
    /\ UNCHANGED <<prog, csv_data, header, cols, row_number, parsed_data, chart, tokenVars>>

CheckAny2 ==
    /\ prog = "video_loss2" /\ pc = "check"
    /\ IF ~Any(plot_data.lpips_0_loss_avg) /\ ~Any(plot_data.lpips_0_5_loss_avg)
       THEN /\ stdout' = Append(stdout, Msg("error_no_data", 0, ""))
            /\ pc' = "done"
       ELSE /\ stdout' = stdout
            /\ pc' = "plot"
    /\ UNCHANGED <<prog, csv_data, header, cols, row_number, parsed_data, plot_data,
                   chart, tokenVars>>

Plot2 ==
    /\ prog = "video_loss2" /\ pc = "plot"
    /\ chart' = [drawn  |-> TRUE,
                 labels |-> plot_data.video_labels,
                 bars0  |-> plot_data.lpips_0_loss_avg,
                 bars05 |-> plot_data.lpips_0_5_loss_avg]
    /\ stdout' = Append(stdout, Msg("plot_saved", 0, ""))
    /\ pc' = "done"
    /\ UNCHANGED <<prog, csv_data, header, cols, row_number, parsed_data, plot_data,
                   tokenVars>>

-----------------------------------------------------------------------------
(* The files given to video_loss2.py *)

\* <<video, avg_packet_loss, lpips>> of the data rows
RowFields2 ==
    { <<"video-3.mp4", "0.0", "0.1">>,
      <<"video-3.mp4", "0.03", "0.2">>,
      <<"video-8.mp4", "0.05", "0.3">>,
      <<"\"video-8.mp4\" ", " \"0.001\"", "0.4">>,
      <<"video-3.mp4", "0.06", "0.1">>,
      <<"video-9.mp4", "0.0", "0.1">>,
      <<"video-8.mp4", "n/a", "0.1">> }

RowsUnder2(h) == {LayRow(LayoutOf(h), t) : t \in RowFields2} \cup {ShortRow, <<>>}

NamedFiles2 ==
    {<<HeaderNamed>> \o rows : rows \in SeqsUpTo(RowsUnder2(HeaderNamed), MaxRows)}

\* files whose first line does not name the columns
UnnamedFiles2 ==
    {<<HeaderNoNames>> \o rows : rows \in SeqsUpTo(WideRows, 1)}

\* one data row of a target video for every loss fraction of the grid
GridFiles2 ==
    {<<HeaderShuffled, LayRow(LayoutOf(HeaderShuffled), <<"video-2.mp4", Literal(k), "0.5">>)>> :
        k \in LossGrid}

VideoFiles2 == NamedFiles2 \cup UnnamedFiles2 \cup BlankFiles \cup GridFiles2

-----------------------------------------------------------------------------
(* lpips_token.py *)

classify_loss_rate(x) ==
    IF FLt(FAbs(x), F_0_01) THEN "0%"
    ELSE IF FLe(FAbs(FSub(x, F_0_20)), F_0_05) THEN "20%"
    ELSE "None"

\* df["n_codes"] of the rows with the given loss_rate, as a set
TokensWith(frame, rate) ==
    {frame[i].n_codes : i \in {j \in DOMAIN frame : frame[j].loss_rate = rate}}

\* np.linspace(0, n - 1, 9, dtype=int) for n >= 1: i * (n - 1) / 8 is exact
\* in binary and is cut down to an integer.  (For n = 0 the first index, 0,
\* already raises IndexError.)
LinspaceIdx(n) == [j \in 1..9 |-> ((j - 1) * (n - 1)) \div 8]

\* list.remove(x): the list without its first x
ListRemove(list, x) ==
    LET i == ListIndex(list, x) + 1
    IN  SubSeq(list, 1, i - 1) \o SubSeq(list, i + 1, Len(list))

\* lines 33-34: remove 384 if it is in the list and has no 20% loss data
Remove384(tokens, with20) ==
    IF 384 \in Range(tokens) /\ 384 \notin with20
    THEN ListRemove(tokens, 384)
    ELSE tokens

\* lines 37-42: keep 8, then put the lowest token with 20% data in front
SelectTokens(tokens, with20) ==
    LET kept == SubSeq(tokens, 1, IF Len(tokens) < 8 THEN Len(tokens) ELSE 8)
        lowest_with_20 == Min(with20)
    IN  IF lowest_with_20 \notin Range(kept) THEN <<lowest_with_20>> \o kept ELSE kept

\* Series.mean(): NaN for no values
NaN == <<0, 0>>

SeriesMean(values) == IF values = <<>> THEN NaN ELSE Mean(values)

LpipsOf(frame, token, rate) ==
    LET sel == SelectSeq(frame, LAMBDA r : r.n_codes = token /\ r.loss_rate = rate)
    IN  [i \in DOMAIN sel |-> sel[i].lpips]

\* lines 50-65: one entry per token of the filtered frame, in ascending order
GroupMeans(df_filtered) ==
    LET tokens == {df_filtered[i].n_codes : i \in DOMAIN df_filtered}
        entry(t) == [n_codes  |-> t,
                     lpips_0  |-> SeriesMean(LpipsOf(df_filtered, t, "0%")),
                     lpips_20 |-> SeriesMean(LpipsOf(df_filtered, t, "20%"))]
        RECURSIVE build(_)
        build(S) == IF S = {} THEN <<>>
                    ELSE <<entry(Min(S))>> \o build(S \ {Min(S)})
    IN  build(tokens)

----

\* Step 1: classify the loss rate and drop the rows in no band
TokClassify ==
    /\ prog = "lpips_token" /\ pc = "step1"
    /\ df' = SelectSeq([i \in DOMAIN df |->
                          [df[i] EXCEPT !.loss_rate = classify_loss_rate(df[i].avg_packet_loss)]],
                       LAMBDA r : r.loss_rate # "None")
    /\ pc' = "step2"
    /\ UNCHANGED <<prog, videoVars, df_csv, token_20_set, token_0_set, all_tokens,
                   selected_tokens, grouped>>

\* Step 2: the token numbers with 20% and with 0% loss data
TokSets ==
    /\ prog = "lpips_token" /\ pc = "step2"
    /\ token_20_set' = TokensWith(df, "20%")
    /\ token_0_set' = TokensWith(df, "0%")
    /\ pc' = "step3"
    /\ UNCHANGED <<prog, videoVars, df_csv, df, all_tokens, selected_tokens, grouped>>

\* Step 3, lines 25-30: pick 9 tokens evenly spaced
TokPick ==
    /\ prog = "lpips_token" /\ pc = "step3"
    /\ LET token_values_sorted == SortedSeq({df[i].n_codes : i \in DOMAIN df})
           idx == LinspaceIdx(Len(token_values_sorted))
       IN  IF token_values_sorted = <<>>
           THEN /\ stdout' = Append(stdout, Msg("IndexError", 0, ""))
                /\ pc' = "crash"
                /\ all_tokens' = all_tokens
           ELSE /\ all_tokens' = [j \in 1..9 |-> token_values_sorted[idx[j] + 1]]
                /\ pc' = "select"
                /\ stdout' = stdout
    /\ UNCHANGED <<prog, csv_data, header, cols, row_number, parsed_data, plot_data,
                   chart, df_csv, df, token_20_set, token_0_set, selected_tokens, grouped>>

\* Step 3, lines 33-44: the final selection
TokSelect ==
    /\ prog = "lpips_token" /\ pc = "select"
    /\ all_tokens' = Remove384(all_tokens, token_20_set)
    /\ IF token_20_set = {}
       THEN /\ selected_tokens' = SubSeq(all_tokens', 1, 8)
            /\ stdout' = Append(stdout, Msg("ValueError", 0, ""))
            /\ pc' = "crash"
       ELSE /\ selected_tokens' = SelectTokens(all_tokens', token_20_set)
            /\ stdout' = Append(stdout, Msg("final_selected_tokens", 0, ""))
            /\ pc' = "group"
    /\ UNCHANGED <<prog, csv_data, header, cols, row_number, parsed_data, plot_data,
                   chart, df_csv, df, token_20_set, token_0_set, grouped>>

\* Steps 4-6: the mean lpips of every selected token and loss rate
TokGroup ==
    /\ prog = "lpips_token" /\ pc = "group"
    /\ grouped' = GroupMeans(SelectSeq(df, LAMBDA r : r.n_codes \in Range(selected_tokens)))
    /\ pc' = "done"
    /\ UNCHANGED <<prog, videoVars, df_csv, df, token_20_set, token_0_set, all_tokens,
                   selected_tokens>>

-----------------------------------------------------------------------------
(* The data frames given to lpips_token.py (pd.read_csv) *)

\* a row as read_csv returns it: x is the double read from avg_packet_loss
DfRow(n_codes, x, lpips) ==
    [n_codes |-> n_codes, avg_packet_loss |-> x, lpips |-> lpips, loss_rate |-> "NA"]

TokenValue(i) == 128 * i

\* the rows of the i-th token count: at 0% loss, at 20% loss, or both
TokenRows(i, opt) ==
    (IF opt \in {"0", "both"} THEN <<DfRow(TokenValue(i), F_0_0, 100 + i)>> ELSE <<>>)
    \o (IF opt \in {"20", "both"} THEN <<DfRow(TokenValue(i), F_0_20, 300 + i)>> ELSE <<>>)

RECURSIVE FrameOf(_, _)
FrameOf(opts, i) ==
    IF i > Len(opts) THEN <<>> ELSE TokenRows(i, opts[i]) \o FrameOf(opts, i + 1)

\* frames with 1..MaxTokens distinct token counts
SelectionFrames ==
    {FrameOf(opts, 1) : opts \in UNION {[1..n -> {"0", "20", "both"}] : n \in 1..MaxTokens}}

\* one row for every loss fraction of the grid
GridFrames == {<<DfRow(384, Fl(k), 500)>> : k \in LossGrid}

TokenIdle ==
    /\ df_csv = <<>>
    /\ df = <<>>
    /\ token_20_set = {}
    /\ token_0_set = {}
    /\ all_tokens = <<>>
    /\ selected_tokens = <<>>
    /\ grouped = <<>>

\* the script is run (__main__) or generate_lpips_plot is called with the text
InitVideo ==
    /\ prog = "video_loss"
    /\ csv_data \in VideoFiles
    /\ pc \in {"main", "read_header"}
    /\ header = <<>>
    /\ cols = NoCols
    /\ row_number = 0
    /\ parsed_data = EmptyParsedData
    /\ plot_data = EmptyPlotData
    /\ stdout = <<>>
    /\ chart = NoChart
    /\ TokenIdle

InitVideo2 ==
    /\ prog = "video_loss2"
    /\ csv_data \in VideoFiles2
    /\ pc \in {"main", "read_header"}
    /\ header = <<>>
    /\ cols = NoCols
    /\ row_number = 0
    /\ parsed_data = EmptyParsedData2
    /\ plot_data = EmptyPlotData2
    /\ stdout = <<>>
    /\ chart = NoChart2
    /\ TokenIdle

VideoIdle ==
    /\ csv_data = <<>>
    /\ header = <<>>
    /\ cols = NoCols
    /\ row_number = 0
    /\ parsed_data = EmptyParsedData
    /\ plot_data = EmptyPlotData
    /\ stdout = <<>>
    /\ chart = NoChart

InitToken ==
    /\ prog = "lpips_token"
    /\ df_csv \in SelectionFrames \cup GridFrames
    /\ df = df_csv
    /\ pc = "step1"
    /\ token_20_set = {}
    /\ token_0_set = {}
    /\ all_tokens = <<>>
    /\ selected_tokens = <<>>
    /\ grouped = <<>>
    /\ VideoIdle

Init == InitVideo \/ InitVideo2 \/ InitToken

NextVideo ==
    \/ Main
    \/ ReadHeader
    \/ ResolveColumns
    \/ RowStep
    \/ RowsDone
    \/ Aggregate
    \/ CheckAny
    \/ Plot

NextVideo2 ==
    \/ Main2
    \/ ReadHeader2
    \/ ResolveColumns2
    \/ RowStep2
    \/ RowsDone2
    \/ Aggregate2
    \/ CheckAny2
    \/ Plot2

NextToken ==
    \/ TokClassify
    \/ TokSets
    \/ TokPick
    \/ TokSelect
    \/ TokGroup

Next == NextVideo \/ NextVideo2 \/ NextToken

Spec == Init /\ [][Next]_vars

SpecVideo == InitVideo /\ [][NextVideo]_vars

SpecToken == InitToken /\ [][NextToken]_vars

\* the two video scripts
InitLoss == InitVideo \/ InitVideo2

NextLoss == NextVideo \/ NextVideo2

SpecLoss == InitLoss /\ [][NextLoss]_vars

-----------------------------------------------------------------------------
(* What the statements below speak of: the rows of the file as its first   *)
(* line lays them out, read without the row loop.                          *)

\* the data rows the row loop has consumed
Processed == SubSeq(csv_data, 2, row_number + 1)

FileCols == LayoutOf(Head(csv_data))

HasField(row, c) == c < Len(row)

Unquote(s) == StrReplace(StrStrip(s), "\"", "")

RowVideo(row) == Unquote(row[FileCols.video + 1])

RowLoss(row) == ParseFloat(Unquote(row[FileCols.avg_loss + 1]))

RowMetric(row) == ParseFloat(row[FileCols.lpips + 1])

\* the bands the categorisation step of video_loss.py tests, on thousandths
CodeBand(k) ==
    IF k = 0 THEN Key0
    ELSE IF 150 <= k /\ k <= 250 THEN Key20
    ELSE "none"

NoNumber == [ok |-> FALSE, k |-> 0]

\* what a row is to the statements, from its fields as read: well-formed
\* when it has the three columns and numbers in the loss and metric ones;
\* malformed when non-blank and not well-formed; warned when malformed with
\* the video column missing or naming a target video; ingested when
\* well-formed, of a target video and in a band the code tests
RowFactsFrom(blank, has_video, video, complete, loss, metric) ==
    [well_formed |-> complete /\ loss.ok /\ metric.ok,
     target      |-> has_video /\ video \in Range(target_video_names),
     malformed   |-> ~blank /\ ~(complete /\ loss.ok /\ metric.ok),
     warned      |-> /\ ~blank /\ ~(complete /\ loss.ok /\ metric.ok)
                     /\ (~has_video \/ video \in Range(target_video_names)),
     ingested    |-> /\ complete /\ loss.ok /\ metric.ok
                     /\ has_video /\ video \in Range(target_video_names)
                     /\ CodeBand(loss.k) # "none",
     video       |-> video,
     band        |-> IF complete /\ loss.ok THEN CodeBand(loss.k) ELSE "none",
     metric      |-> IF complete /\ metric.ok THEN metric.k ELSE 0]

\* the row under the column layout c, each field read once
RowFactsIn(row, c) ==
    RowFactsFrom(row = <<>>,
                 HasField(row, c.video),
                 IF HasField(row, c.video) THEN Unquote(row[c.video + 1]) ELSE "",
                 HasField(row, c.video) /\ HasField(row, c.avg_loss) /\ HasField(row, c.lpips),
                 IF HasField(row, c.avg_loss)
                     THEN ParseFloat(Unquote(row[c.avg_loss + 1])) ELSE NoNumber,
                 IF HasField(row, c.lpips)
                     THEN ParseFloat(row[c.lpips + 1]) ELSE NoNumber)

RowFacts(row) == RowFactsIn(row, FileCols)

FactsIn(rows, c) == [n \in DOMAIN rows |-> RowFactsIn(rows[n], c)]

\* the facts of the rows the row loop has consumed, in file order
Facts == FactsIn(Processed, FileCols)

IsTargetRow(row) == RowFacts(row).target

WellFormed(row) == RowFacts(row).well_formed

\* a non-blank line with too few columns or a non-numeric metric or loss
Malformed(row) == RowFacts(row).malformed

\* a malformed row whose video column is missing or names a target video
Warned(row) == RowFacts(row).warned

Ingested(row) == RowFacts(row).ingested

\* the tolerance bands of the specification, on loss fractions in thousandths
InZeroBand(k) == Abs(k) < 10

InTwentyBand(k) == 150 <= k /\ k <= 250

CountRows(rows, P(_)) == Cardinality({i \in DOMAIN rows : P(rows[i])})

IsWarning(m) == m.kind \in {"warning_columns", "warning_parse"}

Warnings == Cardinality({i \in DOMAIN stdout : IsWarning(stdout[i])})

Printed(kind) == \E i \in DOMAIN stdout : stdout[i].kind = kind

\* a number is a fraction with a positive denominator; anything else (NaN)
\* marks a missing value
IsNumber(v) == v[2] > 0

-----------------------------------------------------------------------------
(* C1: in generate_lpips_plot, if no row was accumulated into the bucket   *)
(* (v, c), the value handed to the chart for (v, c) is a missing marker,   *)
(* distinguishable from every number, and never the number 0.              *)
C1_MissingNotZero ==
    (prog = "video_loss" /\ chart.drawn) =>
        \A i \in DOMAIN target_video_names :
            /\ parsed_data[target_video_names[i]][Key0] = <<>>
                  => ~IsNumber(chart.bars0[i])
            /\ parsed_data[target_video_names[i]][Key20] = <<>>
                  => ~IsNumber(chart.bars20[i])

-----------------------------------------------------------------------------
(* C2: every loss fraction x with |x| < 0.01 (0.0 included) is in the 0%   *)
(* condition: generate_lpips_plot accumulates the metric of such a row of  *)
(* a target video under (video, 0%), and classify_loss_rate gives "0%".    *)
C2_ZeroBand ==
    /\ prog = "video_loss" =>
          \A n \in DOMAIN Processed :
              LET row == Processed[n]
              IN  (WellFormed(row) /\ IsTargetRow(row) /\ InZeroBand(RowLoss(row).k))
                      => RowMetric(row).k \in Range(parsed_data[RowVideo(row)][Key0])
    /\ (prog = "lpips_token" /\ pc # "step1") =>
          \A i \in DOMAIN df_csv :
              InZeroBand(df_csv[i].avg_packet_loss.k)
                  => \E j \in DOMAIN df :
                        df[j] = [df_csv[i] EXCEPT !.loss_rate = "0%"]

\* classify_loss_rate alone does keep the band |x| < 0.01
C2_TokenPartHolds ==
    (prog = "lpips_token" /\ pc # "step1") =>
        \A i \in DOMAIN df_csv :
            InZeroBand(df_csv[i].avg_packet_loss.k)
                <=> \E j \in DOMAIN df :
                       df[j] = [df_csv[i] EXCEPT !.loss_rate = "0%"]

-----------------------------------------------------------------------------
(* C3: every loss fraction x with 0.15 <= x <= 0.25, both bounds included, *)
(* is in the 20% condition; x = 0.26 and every x in neither band is in no  *)
(* condition: the row contributes to no bucket and raises no warning.      *)
C3_TwentyBand ==
    /\ prog = "video_loss" =>
          /\ \A n \in DOMAIN Processed :
                LET row == Processed[n]
                IN  (WellFormed(row) /\ IsTargetRow(row) /\ InTwentyBand(RowLoss(row).k))
                        => RowMetric(row).k \in Range(parsed_data[RowVideo(row)][Key20])
          /\ (\A n \in DOMAIN Processed :
                 LET row == Processed[n]
                 IN  /\ WellFormed(row)
                     /\ ~InZeroBand(RowLoss(row).k)
                     /\ ~InTwentyBand(RowLoss(row).k))
             => (parsed_data = EmptyParsedData /\ Warnings = 0)
    /\ (prog = "lpips_token" /\ pc # "step1") =>
          \A i \in DOMAIN df_csv :
              LET k == df_csv[i].avg_packet_loss.k
              IN  /\ InTwentyBand(k)
                     => \E j \in DOMAIN df : df[j] = [df_csv[i] EXCEPT !.loss_rate = "20%"]
                  /\ (~InZeroBand(k) /\ ~InTwentyBand(k))
                     => \A j \in DOMAIN df : df[j].avg_packet_loss # df_csv[i].avg_packet_loss

\* the categorisation step of generate_lpips_plot alone does keep the band
\* 0.15 <= x <= 0.25
C3_VideoPartHolds ==
    prog = "video_loss" =>
        \A v \in Range(target_video_names) :
            Len(parsed_data[v][Key20]) =
                CountRows(Processed, LAMBDA row :
                    /\ WellFormed(row) /\ IsTargetRow(row)
                    /\ RowVideo(row) = v
                    /\ InTwentyBand(RowLoss(row).k))

-----------------------------------------------------------------------------
(* More of what the statements speak of *)

TotalIngested ==
    SeqSum([i \in DOMAIN target_video_names |->
              Len(parsed_data[target_video_names[i]][Key0])
              + Len(parsed_data[target_video_names[i]][Key20])])

\* the metrics of the well-formed rows of video v whose loss is in band c,
\* F being the facts of the rows
MetricsOf(F, v, c) ==
    LET sel == SelectSeq(F, LAMBDA f : f.ingested /\ f.video = v /\ f.band = c)
    IN  [i \in DOMAIN sel |-> sel[i].metric]

\* v is the mean of the non-empty list M
IsMeanOf(v, M) == M # <<>> /\ IsNumber(v) /\ v[1] * Len(M) = v[2] * SeqSum(M)

-----------------------------------------------------------------------------
\* every malformed row is a warning, every ingested row a value; F the facts
EveryMalformedRowWarned(F) ==
    /\ Warnings = CountRows(F, LAMBDA f : f.malformed)
    /\ TotalIngested = CountRows(F, LAMBDA f : f.ingested)

(* C4 as stated: in the row loop every malformed row (non-numeric metric   *)
(* or loss, or too few columns) adds nothing to a bucket and is counted as *)
(* exactly one warning, so N rows with M malformed end with N-M ingested   *)
(* values and M warnings.                                                  *)
C4_EveryMalformedRowWarned ==
    prog = "video_loss" => EveryMalformedRowWarned(Facts)

\* the warnings are those of the rows that reach the parsing; F the facts
TargetMalformedRowsWarned(F) ==
    /\ Warnings = CountRows(F, LAMBDA f : f.warned)
    /\ \A v \in Range(target_video_names) : \A c \in {Key0, Key20} :
          parsed_data[v][c] =
              MetricsOf(SelectSeq(F, LAMBDA f : ~f.malformed), v, c)
    /\ (\A n \in DOMAIN F : F[n].warned \/ F[n].ingested)
          => /\ TotalIngested = Len(F) - CountRows(F, LAMBDA f : f.malformed)
             /\ Warnings = CountRows(F, LAMBDA f : f.malformed)

(* C4 amended: a malformed row is counted as exactly one warning when its  *)
(* video column is missing or names a target video (a malformed row of     *)
(* another video is skipped silently); no malformed row stops the loop or  *)
(* adds to a bucket, the buckets are those of the well-formed rows alone,  *)
(* and N rows of target videos, each malformed or in a band, of which M    *)
(* are malformed end with N-M ingested values and M warnings.              *)
C4_TargetMalformedRowsWarned ==
    prog = "video_loss" => TargetMalformedRowsWarned(Facts)

\* three rows, the first one malformed: one warning, two values ingested
C4_Witness ==
    /\ prog = "video_loss" /\ pc = "aggregate"
    /\ Len(Processed) = 3
    /\ Warned(Processed[1])
    /\ Ingested(Processed[2]) /\ Ingested(Processed[3])
    /\ Warnings = 1 /\ TotalIngested = 2

-----------------------------------------------------------------------------
\* every cell is the mean of the rows of F that belong to it
CellIsMeanOfItsRows(F) ==
    \A i \in DOMAIN target_video_names :
        /\ IsMeanOf(plot_data.lpips_0_loss_avg[i],
                    MetricsOf(F, target_video_names[i], Key0))
        /\ IsMeanOf(plot_data.lpips_20_loss_avg[i],
                    MetricsOf(F, target_video_names[i], Key20))

(* C5: after aggregation every value reported for a (video, condition)     *)
(* cell is the arithmetic mean of a non-empty multiset of metrics, exactly *)
(* those of the well-formed rows of that video whose loss classifies to    *)
(* that condition; no value is reported that no row backs.                 *)
C5_CellIsMeanOfItsRows ==
    (prog = "video_loss" /\ pc \in {"check", "plot", "done"} /\ plot_data # EmptyPlotData) =>
        CellIsMeanOfItsRows(Facts)

\* a cell with rows holds their mean
BackedCell(val, M) == M # <<>> => IsMeanOf(val, M)

BackedCellsHold(F) ==
    \A i \in DOMAIN target_video_names :
        /\ BackedCell(plot_data.lpips_0_loss_avg[i],
                      MetricsOf(F, target_video_names[i], Key0))
        /\ BackedCell(plot_data.lpips_20_loss_avg[i],
                      MetricsOf(F, target_video_names[i], Key20))

\* the cells that rows do back hold the mean of exactly those rows
C5_BackedCellsHold ==
    (prog = "video_loss" /\ pc \in {"check", "plot", "done"} /\ plot_data # EmptyPlotData) =>
        BackedCellsHold(Facts)

-----------------------------------------------------------------------------
(* C6: when the header lacks a required column name and the caller gave no *)
(* fallback positions (generate_lpips_plot has no such argument),          *)
(* the run stops with a schema error before any data row is ingested or    *)
(* aggregated.                                                             *)
C6_SchemaErrorStops ==
    (prog = "video_loss" /\ csv_data # <<>> /\ ~HeaderHasNames(Head(csv_data))) =>
        /\ parsed_data = EmptyParsedData
        /\ plot_data = EmptyPlotData
        /\ ~chart.drawn

\* the fallback positions are never used without the warning being printed
C6_FallbackLogged ==
    (prog = "video_loss" /\ cols = FallbackCols /\ ~HeaderHasNames(header)) =>
        Printed("warning_fallback_indices")

-----------------------------------------------------------------------------
\* the first line already holds a number: a data row, not a header
HeaderLess(csv) ==
    csv # <<>> /\ \E i \in DOMAIN Head(csv) : ParseFloat(Head(csv)[i]).ok

\* nothing ingested, aggregated or rendered, and the run ends on an error
FailedFast ==
    /\ row_number = 0
    /\ parsed_data = EmptyParsedData
    /\ plot_data = EmptyPlotData
    /\ ~chart.drawn
    /\ pc = "done" => (Printed("error_csv_empty") \/ Printed("error_file_empty"))

(* C7: a completely empty input, and an input whose first line is already  *)
(* a data row, fails fast with an empty-input error: no row is ingested,   *)
(* no aggregate is computed, nothing is rendered.                          *)
C7_EmptyOrHeaderlessFailsFast ==
    (prog = "video_loss" /\ (csv_data = <<>> \/ HeaderLess(csv_data))) => FailedFast

\* the completely empty input does fail fast
C7_EmptyPartHolds ==
    (prog = "video_loss" /\ csv_data = <<>>) => FailedFast

-----------------------------------------------------------------------------
\* the labels of target_video_names, in its order
ExpectedLabels ==
    <<"Video0", "Video1", "Video2", "Video4", "Video5", "Video6", "Video7", "Video9">>

\* the entry val is that of the rows M: their mean, or a zero when there are none
BelongsTo(val, M) == IF M = <<>> THEN val[1] = 0 ELSE IsMeanOf(val, M)

\* three lists of the length of target_video_names, entry i for video i
PlotShape(F) ==
    /\ Len(plot_data.video_labels) = Len(target_video_names)
    /\ Len(plot_data.lpips_0_loss_avg) = Len(target_video_names)
    /\ Len(plot_data.lpips_20_loss_avg) = Len(target_video_names)
    /\ \A i \in DOMAIN target_video_names :
          /\ plot_data.video_labels[i] = ExpectedLabels[i]
          /\ BelongsTo(plot_data.lpips_0_loss_avg[i],
                       MetricsOf(F, target_video_names[i], Key0))
          /\ BelongsTo(plot_data.lpips_20_loss_avg[i],
                       MetricsOf(F, target_video_names[i], Key20))

(* C8: whenever generate_lpips_plot reaches the plotting step, the lists   *)
(* video_labels, lpips_0_loss_avg and lpips_20_loss_avg have the length of *)
(* the target video list and entry i of each belongs to the i-th target    *)
(* video, whatever rows the input holds and in whatever order.             *)
C8_PlotShape ==
    (prog = "video_loss" /\ (pc = "plot" \/ chart.drawn)) => PlotShape(Facts)

\* the plotting step is reached with rows of video-1 before rows of video-0
C8_Witness ==
    /\ prog = "video_loss" /\ pc = "plot"
    /\ Len(Processed) >= 2
    /\ Ingested(Processed[1]) /\ RowVideo(Processed[1]) = "video-1.mp4"
    /\ Ingested(Processed[2]) /\ RowVideo(Processed[2]) = "video-0.mp4"
    /\ Any(<<plot_data.lpips_0_loss_avg[1]>>)
    /\ Any(<<plot_data.lpips_20_loss_avg[2]>>)

-----------------------------------------------------------------------------
(* C9: generate_lpips_plot refuses to render ("No data found ... Cannot    *)
(* generate plot") if and only if every (target video, condition) bucket   *)
(* is empty; an input with contributing rows is always rendered, also when *)
(* all of its metric values are 0.                                         *)
C9_RefusesIffNoData ==
    (prog = "video_loss" /\ (pc = "plot" \/ chart.drawn \/ Printed("error_no_data"))) =>
        (Printed("error_no_data") <=> parsed_data = EmptyParsedData)

\* with no contributing row at all the run is always refused
C9_NoDataRefused ==
    (prog = "video_loss" /\ (pc = "plot" \/ chart.drawn \/ Printed("error_no_data"))) =>
        (parsed_data = EmptyParsedData => Printed("error_no_data"))

-----------------------------------------------------------------------------
(* C10: in the token selection of lpips_token.py, if token count 384 has   *)
(* no row in the 20% condition then 384 is not in the final                *)
(* selected_tokens; the lowest token count with 20% data is in             *)
(* selected_tokens, which has at most 9 entries.                           *)
With20 ==
    {df_csv[i].n_codes :
        i \in {j \in DOMAIN df_csv : InTwentyBand(df_csv[j].avg_packet_loss.k)}}

C10_Selection ==
    (prog = "lpips_token" /\ pc \in {"group", "done"}) =>
        /\ 384 \notin With20 => 384 \notin Range(selected_tokens)
        /\ With20 # {} => Min(With20) \in Range(selected_tokens)
        /\ Len(selected_tokens) <= 9

\* the lowest token with 20% data is selected and at most 9 are
C10_LowestSelected ==
    (prog = "lpips_token" /\ pc \in {"group", "done"}) =>
        /\ With20 # {} => Min(With20) \in Range(selected_tokens)
        /\ Len(selected_tokens) <= 9

-----------------------------------------------------------------------------
(* What the row accounting speaks of, for either video script *)

Targets == IF prog = "video_loss2" THEN target_video_names2 ELSE target_video_names

\* the key of the second condition
LossKey == IF prog = "video_loss2" THEN Key05 ELSE Key20

\* the bands the categorisation step of video_loss2.py tests, on thousandths
CodeBand2(k) ==
    IF k = 0 THEN Key0
    ELSE IF 0 < k /\ k <= 50 THEN Key05
    ELSE "none"

BandIn(k) == IF prog = "video_loss2" THEN CodeBand2(k) ELSE CodeBand(k)

Account(outcome, video, band, metric) ==
    [outcome |-> outcome, video |-> video, band |-> band, metric |-> metric]

\* the one outcome of a row, from its fields as read: a blank row and a row
\* of another video are skipped; a row without its video column, and a row
\* of a target video that lacks a column or has no number in the metric or
\* loss column, is a warning; a row whose loss is in no band is skipped; any
\* other row goes to the bucket (video, band)
AccountFrom(blank, has_video, video, complete, loss, metric) ==
    IF blank THEN Account("skip_empty", "", "none", 0)
    ELSE IF ~has_video THEN Account("warning", "", "none", 0)
    ELSE IF video \notin Range(Targets) THEN Account("skip_not_target", video, "none", 0)
    ELSE IF ~(complete /\ loss.ok /\ metric.ok) THEN Account("warning", video, "none", 0)
    ELSE IF BandIn(loss.k) = "none" THEN Account("skip_no_band", video, "none", 0)
    ELSE Account("bucket", video, BandIn(loss.k), metric.k)

\* the row under the column layout c, each field read once
AccountIn(row, c) ==
    AccountFrom(row = <<>>,
                HasField(row, c.video),
                IF HasField(row, c.video) THEN Unquote(row[c.video + 1]) ELSE "",
                HasField(row, c.video) /\ HasField(row, c.avg_loss) /\ HasField(row, c.lpips),
                IF HasField(row, c.avg_loss)
                    THEN ParseFloat(Unquote(row[c.avg_loss + 1])) ELSE NoNumber,
                IF HasField(row, c.lpips)
                    THEN ParseFloat(row[c.lpips + 1]) ELSE NoNumber)

AccountsIn(rows, c) == [n \in DOMAIN rows |-> AccountIn(rows[n], c)]

\* the outcomes of the rows the row loop has consumed, in file order
Accounts == AccountsIn(Processed, FileCols)

Skips == {"skip_empty", "skip_not_target", "skip_no_band"}

\* the total size of all buckets
TotalBuckets ==
    SeqSum([i \in DOMAIN Targets |->
              Len(parsed_data[Targets[i]][Key0]) + Len(parsed_data[Targets[i]][LossKey])])

\* the metrics of the rows of A whose outcome is the bucket (v, c)
BucketOf(A, v, c) ==
    LET sel == SelectSeq(A, LAMBDA a : a.outcome = "bucket" /\ a.video = v /\ a.band = c)
    IN  [i \in DOMAIN sel |-> sel[i].metric]

\* the buckets and the warnings are those of the outcomes A, row for row
RowAccounting(A) ==
    /\ Len(A) = row_number
    /\ \A v \in Range(Targets) : \A c \in {Key0, LossKey} :
          parsed_data[v][c] = BucketOf(A, v, c)
    /\ TotalBuckets = CountRows(A, LAMBDA a : a.outcome = "bucket")
    /\ Warnings = CountRows(A, LAMBDA a : a.outcome = "warning")
    /\ TotalBuckets + Warnings + CountRows(A, LAMBDA a : a.outcome \in Skips) = Len(A)

\* one bucket has one value more, everything else as before
OneBucketGrows ==
    \E v \in Range(Targets) : \E c \in {Key0, LossKey} :
        /\ Len(parsed_data'[v][c]) = Len(parsed_data[v][c]) + 1
        /\ SubSeq(parsed_data'[v][c], 1, Len(parsed_data[v][c])) = parsed_data[v][c]
        /\ parsed_data' = [parsed_data EXCEPT ![v][c] = parsed_data'[v][c]]

OneWarningMore ==
    /\ Len(stdout') = Len(stdout) + 1
    /\ SubSeq(stdout', 1, Len(stdout)) = stdout
    /\ IsWarning(stdout'[Len(stdout')])

\* an iteration of the row loop does exactly one of: append to one bucket,
\* print one warning, nothing
RowLoopStep ==
    (prog \in {"video_loss", "video_loss2"} /\ row_number' # row_number) =>
        /\ row_number' = row_number + 1
        /\ \/ OneBucketGrows /\ stdout' = stdout
           \/ OneWarningMore /\ parsed_data' = parsed_data
           \/ stdout' = stdout /\ parsed_data' = parsed_data

(* C11: in the row loop of generate_lpips_plot (video_loss.py and          *)
(* video_loss2.py), after any prefix of the data rows each processed row   *)
(* has had exactly one outcome: appended to exactly one bucket (video,     *)
(* condition), counted as one warning, or skipped silently (empty row,     *)
(* video not a target, loss in no band); no row is in two buckets, and the *)
(* total size of the buckets plus the warnings plus the silent skips is    *)
(* the number of rows processed.                                           *)
C11_RowAccounting ==
    /\ [](prog \in {"video_loss", "video_loss2"} => RowAccounting(Accounts))
    /\ [][RowLoopStep]_vars

\* video_loss2.py has processed three rows: one appended, one warned, one
\* skipped for a loss in no band
C11_Witness ==
    /\ prog = "video_loss2" /\ pc = "aggregate"
    /\ row_number = 3
    /\ Accounts[1].outcome = "bucket"
    /\ Accounts[2].outcome = "warning"
    /\ Accounts[3].outcome = "skip_no_band"
    /\ TotalBuckets = 1 /\ Warnings = 1

====
